---- MODULE Spec2Model ----
(***************************************************************************)
(* AOTY-API: the four cached endpoints of app/main.py (album, similar      *)
(* albums, search, user) as coroutines that suspend at every await, in     *)
(* front of the cache (app/utils/cache.py) and the scraper                 *)
(* (app/scraper/aoty_scraper.py).                                          *)
(***************************************************************************)
EXTENDS Integers, Sequences, FiniteSets, TLC

\* ------------------------------------------------------------------ bounds
NReq == 2        \* request slots: requests in flight at the same time
MaxReqs == 2     \* requests accepted in one run
MaxTime == 2     \* the clock stops here
MaxRev == 1      \* upstream content revisions
MaxRefreshReqs == 3   \* requests accepted where an entry outlives a failed refresh

\* TTLs of app/utils/cache.py, in clock ticks (scaled, pairwise distinct)
ALBUM_TTL == 1
SIMILAR_TTL == 3
USER_TTL == 2
SEARCH_TTL == 4

Reqs == 1..NReq

\* ----------------------------------------------------------------- strings
\* A string is a sequence of characters.
LowerChar(c) ==
    CASE c = "R" -> "r"
      [] c = "O" -> "o"
      [] c = "B" -> "b"
      [] OTHER -> c

Lower(s) == [i \in DOMAIN s |-> LowerChar(s[i])]

Digit(d) == <<"0", "1", "2", "3", "4", "5", "6", "7", "8", "9">>[d + 1]

RECURSIVE FmtInt(_)
FmtInt(n) == IF n < 10 THEN <<Digit(n)>> ELSE FmtInt(n \div 10) \o <<Digit(n % 10)>>

\* the request arguments the model draws from
Artists == {<<"R">>, <<"r">>, <<"x">>}
Albums == {<<"o">>}
Queries == {<<"R">>, <<"r">>, <<"q">>}
Usernames == {<<"B">>, <<"b">>}
SimilarLimits == {1, 2}
SearchLimits == {1, 10}
NoStr == <<>>

\* -------------------------------------------------------------- cache keys
album_key(artist, album) ==
    <<"a", "l", "b", "u", "m", ":">> \o artist \o <<":">> \o album

similar_key(artist, album, limit) ==
    <<"s", "i", "m", "i", "l", "a", "r", ":">> \o artist \o <<":">> \o album
        \o <<":">> \o FmtInt(limit)

\* the search key built from the query alone
search_key_no_limit(query, limit) ==
    <<"s", "e", "a", "r", "c", "h", ":">> \o query

search_key(query, limit) ==
    <<"s", "e", "a", "r", "c", "h", ":">> \o query \o <<":">> \o FmtInt(limit)

user_key(username) == <<"u", "s", "e", "r", ":">> \o username

cache_key(kind, a1, a2, limit) ==
    CASE kind = "album" -> album_key(a1, a2)
      [] kind = "similar" -> similar_key(a1, a2, limit)
      [] kind = "search" -> search_key(a1, limit)
      [] kind = "user" -> user_key(a1)

\* the album endpoint passing the user TTL
KindTTLMixed(kind) ==
    CASE kind = "album" -> USER_TTL
      [] kind = "similar" -> SIMILAR_TTL
      [] kind = "search" -> SEARCH_TTL
      [] kind = "user" -> USER_TTL

\* one TTL for every kind
KindTTLFlat(kind) == ALBUM_TTL

KindTTL(kind) ==
    CASE kind = "album" -> ALBUM_TTL
      [] kind = "similar" -> SIMILAR_TTL
      [] kind = "search" -> SEARCH_TTL
      [] kind = "user" -> USER_TTL

UsesLocator(kind) == kind \in {"album", "similar"}

\* ------------------------------------------------------- records and values
\* A model object (Album, SearchResult, UserProfile) and its dict() form.
Obj(cls, f) == [cls |-> cls, f |-> f]

\* What travels to and from the cache: a JSON object, a JSON array, or nothing.
None == [shape |-> "none", body |-> <<>>]
DictVal(o) == [shape |-> "dict", body |-> <<o.f>>]
ListVal(os) == [shape |-> "list", body |-> [i \in DOMAIN os |-> os[i].f]]

\* a list cut to its first element on the way to the cache
SerializeFirstOnly(data) ==
    IF data.many THEN ListVal(IF data.items = <<>> THEN <<>> ELSE <<data.items[1]>>) ELSE DictVal(data.items[1])

\* album_data.dict(), [x.dict() for x in xs]
Serialize(data) ==
    IF data.many THEN ListVal(data.items) ELSE DictVal(data.items[1])

ClassOf(kind) ==
    CASE kind \in {"album", "similar"} -> "Album"
      [] kind = "search" -> "SearchResult"
      [] kind = "user" -> "UserProfile"

\* Album(**cached_result), [Album(**d) for d in cached_result]
Deserialize(kind, v) ==
    [many |-> v.shape = "list",
     items |-> [i \in DOMAIN v.body |-> Obj(ClassOf(kind), v.body[i])]]

\* the branch taken without looking at what get_cache returned
TruthyUnchecked(v) == TRUE

\* Python truthiness of what get_cache returned
Truthy(v) == v.shape # "none" /\ ~(v.shape = "list" /\ v.body = <<>>)

NoData == [many |-> FALSE, items |-> <<>>]

\* ---------------------------------------------------------------- upstream
\* The site's listing, in the order its search engine returns it.
Catalog ==
    << [kind |-> "artist", artist |-> <<"r">>, title |-> <<>>, url |-> "/artist/r"],
       [kind |-> "album", artist |-> <<"r">>, title |-> <<"o">>, url |-> "/album/1"],
       [kind |-> "album", artist |-> <<"r">>, title |-> <<"k">>, url |-> "/album/2"],
       [kind |-> "artist", artist |-> <<"x">>, title |-> <<>>, url |-> "/artist/x"],
       [kind |-> "album", artist |-> <<"r", ":", "o">>, title |-> <<"k">>, url |-> "/album/3"] >>

NoEntry == [kind |-> "none", artist |-> <<>>, title |-> <<>>, url |-> ""]

IsAlbum(e) == e.kind = "album"

\* the site's search engine: case-insensitive on the artist
UpstreamSearch(q) == SelectSeq(Catalog, LAMBDA e : Lower(e.artist) = Lower(q))

Take(s, n) == SubSeq(s, 1, IF n < Len(s) THEN n ELSE Len(s))

\* fields of a record built from listing entry e at upstream revision r
Fields(e, r) ==
    [kind |-> e.kind, artist |-> e.artist, title |-> e.title, url |-> e.url, rev |-> r]

\* locate(artist, album): exact case-insensitive match, else the first
\* album-kind candidate, else nothing
get_album_url(artist, album) ==
    LET cands == SelectSeq(UpstreamSearch(artist), IsAlbum)
        exact == SelectSeq(cands, LAMBDA e : Lower(e.title) = Lower(album))
    IN  IF exact # <<>> THEN exact[1]
        ELSE IF cands # <<>> THEN cands[1]
        ELSE NoEntry

scrape_album(loc, r) ==
    [many |-> FALSE, items |-> <<Obj("Album", Fields(loc, r))>>]

\* the albums listed as similar on the page of loc: none at revision 0
SimilarListing(loc, r) ==
    IF r = 0 THEN <<>>
    ELSE SelectSeq(Catalog, LAMBDA e : IsAlbum(e) /\ e.artist = loc.artist /\ e.url # loc.url)

get_similar_albums(loc, limit, r) ==
    LET l == Take(SimilarListing(loc, r), limit)
    IN  [many |-> TRUE, items |-> [i \in DOMAIN l |-> Obj("Album", Fields(l[i], r))]]

search_albums(query, limit, r) ==
    LET l == Take(UpstreamSearch(query), limit)
    IN  [many |-> TRUE, items |-> [i \in DOMAIN l |-> Obj("SearchResult", Fields(l[i], r))]]

\* usernames are case-insensitive upstream
get_user_profile(username, r) ==
    [many |-> FALSE,
     items |-> <<Obj("UserProfile",
                     [kind |-> "user", artist |-> Lower(username), title |-> <<>>,
                      url |-> "/user", rev |-> r])>>]

\* ---------------------------------------------------------------- failures
Msgs == {"not found", "timed out"}
NoExc == [type |-> "none", msg |-> ""]
Exc(t, m) == [type |-> t, msg |-> m]

\* what a scraper call can raise: the target is unreachable, slow or blocking,
\* or its markup lost an identity field
ScrapeFailures == {Exc(t, m) : t \in {"UpstreamUnavailable", "ParseError"}, m \in Msgs}

\* a page whose identity cannot be resolved (no such album, no such user):
\* HTTPException(404)
PageFailures == ScrapeFailures \cup {Exc("NotFound", "not found")}

IsHTTPException(e) == e.type = "NotFound"

\* a search has no identity to resolve: an empty listing is a result
FetchFailures(kind) == IF kind = "search" THEN ScrapeFailures ELSE PageFailures

\* -------------------------------------------------------------- responses
NoOut == [status |-> 0, body |-> NoData, detail |-> ""]
Ok(data) == [status |-> 200, body |-> data, detail |-> ""]
HTTPError(status, detail) == [status |-> status, body |-> NoData, detail |-> detail]

\* the handler without its "except HTTPException: raise" clause
HandlerOutcomeNoReraise(kind, e) == HTTPError(503, e.msg)

\* the handler choosing the status from the message text
HandlerOutcomeByMessage(kind, e) ==
    IF e.msg = "not found" THEN HTTPError(404, e.msg) ELSE HTTPError(503, e.msg)

\* except HTTPException: raise / except Exception as e: 503, str(e)
\* (the search endpoint has the second clause only)
HandlerOutcome(kind, e) ==
    IF kind # "search" /\ IsHTTPException(e)
    THEN HTTPError(404, e.msg)
    ELSE HTTPError(503, e.msg)

\* metrics.record_error() runs in the except Exception clause only
CountsError(kind, e) == ~(kind # "search" /\ IsHTTPException(e))

\* ------------------------------------------------------------------- state
VARIABLES
    configured,   \* REDIS_URL and REDIS_TOKEN are both set (read once, at import)
    store,        \* the remote store: key -> [value, ttl, at]
    now,          \* the clock, in ticks
    rev,          \* the revision of the upstream site's content
    req,          \* per slot: the coroutine of one request
    issued,       \* requests accepted so far
    metrics,      \* [hits, misses, errors]
    warnings,     \* messages logged about the cache being unavailable
    down          \* the remote services not answering now: "store", "site"

vars == <<configured, store, now, rev, req, issued, metrics, warnings, down>>

\* the environment of a request: what only the world outside the handlers changes
env == <<configured, now, rev, down>>

\* Playwright configuration: PLAYWRIGHT_TIMEOUT, milliseconds
PLAYWRIGHT_TIMEOUT == 30000

\* if not REDIS_URL or not REDIS_TOKEN: print("Warning: ... Cache will be disabled.")
ConfigWarning(conf) == IF conf THEN 0 ELSE 1

IdleReq ==
    [pc |-> "idle", kind |-> "none", a1 |-> NoStr, a2 |-> NoStr, limit |-> 0,
     refresh |-> FALSE, key |-> NoStr,
     loc |-> NoEntry, data |-> NoData, out |-> NoOut,
     \* history of the request, for the properties
     read |-> "none",     \* get_cache gave: "hit", "empty" (a falsy value), "miss"
     saw |-> "none",      \* the store then held for the key: "live", "expired", "absent"
     located |-> "none",  \* get_album_url: "found", "notfound", "raised"
     locates |-> 0, fetches |-> 0,
     wrote |-> FALSE, over |-> FALSE, exc |-> NoExc]

Init ==
    /\ configured \in BOOLEAN
    /\ store = <<>>
    /\ now = 0
    /\ rev = 0
    /\ req = [r \in Reqs |-> IdleReq]
    /\ issued = 0
    /\ metrics = [hits |-> 0, misses |-> 0, errors |-> 0]
    /\ warnings = ConfigWarning(configured)
    /\ down = {}

\* ------------------------------------------------------------------- cache
Live(e) == now < e.at + e.ttl

\* the store is unconfigured or unreachable
Degraded == ~configured \/ "store" \in down

\* get(key) -> value | miss; always a miss when the cache is degraded
get_cache(key) ==
    IF ~Degraded /\ key \in DOMAIN store /\ Live(store[key])
    THEN store[key].value
    ELSE None

\* set(key, value, ttl); a no-op when the cache is degraded
set_cache(key, value, ttl) ==
    IF ~Degraded
    THEN [k \in DOMAIN store \cup {key} |->
            IF k = key THEN [value |-> value, ttl |-> ttl, at |-> now] ELSE store[k]]
    ELSE store

\* the degradation logged by every cache call that meets it
log_degraded_each(n) == IF Degraded THEN n + 1 ELSE n

\* the degradation is logged once: a cache call that meets it logs it only if
\* no message has been logged yet
log_degraded(n) == IF Degraded /\ n = 0 THEN 1 ELSE n

\* metrics.record_request(cache_hit)
record_request(m, hit) ==
    IF hit THEN [m EXCEPT !.hits = @ + 1] ELSE [m EXCEPT !.misses = @ + 1]

\* metrics.record_error()
record_error(m) == [m EXCEPT !.errors = @ + 1]

\* --------------------------------------------------------------- endpoints
\* the request counted as a hit only
CountRequestHitsOnly(m, hit) == IF hit THEN record_request(m, TRUE) ELSE m

\* metrics.record_request(cache_hit=True) / metrics.record_request(cache_hit=False)
CountRequest(m, hit) == record_request(m, hit)

\* the remote service the call awaited at point p talks to
ServiceOf(p) == IF p \in {"get", "set"} THEN "store" ELSE "site"

\* a rendering timeout of 0 would switch the timeout off
RenderTimeoutOff == FALSE

\* the rendering wait is bounded by PLAYWRIGHT_TIMEOUT
RenderTimeout == PLAYWRIGHT_TIMEOUT > 0

\* the wait at point p is bounded by a timeout
TimesOut(p) == IF p = "fetch" THEN RenderTimeout ELSE TRUE

\* the call awaited at point p comes back: its service answers, or the wait
\* times out
Answers(p) == ServiceOf(p) \notin down \/ TimesOut(p)

\* of the failures fs, those a call can end with: any when the site answers,
\* only unavailability when it does not
Failures(fs) ==
    IF "site" \in down THEN {e \in fs : e.type = "UpstreamUnavailable"} ELSE fs

\* what the store holds for key, as a reader at this instant finds it
Holds(key) ==
    IF Degraded \/ key \notin DOMAIN store THEN "absent"
    ELSE IF Live(store[key]) THEN "live" ELSE "expired"

\* the refresh flag ignored
ReadsCacheAlways(refresh) == TRUE

\* if not refresh and (cached_result := await get_cache(cache_key))
ReadsCache(refresh) == ~refresh

\* where the miss branch first suspends
FirstCall(kind) == IF UsesLocator(kind) THEN "locate" ELSE "fetch"

InPipeline(r) == req[r].pc \in {"locate", "fetch", "set"}

\* a single-flight lock per key, held from the miss to the cache write
SuspendedSingleFlight(r, p) ==
    /\ req[r].pc = p
    /\ p \in {"locate", "fetch", "set"} =>
          \A r2 \in Reqs \ {r} : ~(InPipeline(r2) /\ req[r2].key = req[r].key)

\* a coroutine suspended at point p resumes whenever the event loop picks it
Suspended(r, p) == req[r].pc = p

\* the handler is entered: cache_key is built; with refresh the cache read is
\* skipped and the miss branch runs up to its first await
EnterUpTo(cap, r, kind, a1, a2, limit, refresh) ==
    /\ req[r].pc = "idle"
    /\ \A r2 \in Reqs : r2 < r => req[r2].pc # "idle"
    /\ issued < cap
    /\ issued' = issued + 1
    /\ LET q == [IdleReq EXCEPT !.kind = kind, !.a1 = a1, !.a2 = a2, !.limit = limit,
                                !.refresh = refresh,
                                !.key = cache_key(kind, a1, a2, limit)]
       IN  IF ReadsCache(refresh)
           THEN /\ req' = [req EXCEPT ![r] = [q EXCEPT !.pc = "get"]]
                /\ UNCHANGED metrics
           ELSE /\ req' = [req EXCEPT ![r] = [q EXCEPT !.pc = FirstCall(kind)]]
                /\ metrics' = CountRequest(metrics, FALSE)
    /\ UNCHANGED <<env, store, warnings>>

Enter(r, kind, a1, a2, limit, refresh) ==
    EnterUpTo(MaxReqs, r, kind, a1, a2, limit, refresh)

get_album_endpoint(r) ==
    \E artist \in Artists, album \in Albums, refresh \in BOOLEAN :
        Enter(r, "album", artist, album, 0, refresh)

get_similar_albums_endpoint(r) ==
    \E artist \in Artists, album \in Albums, refresh \in BOOLEAN, limit \in SimilarLimits :
        Enter(r, "similar", artist, album, limit, refresh)

search_albums_endpoint(r) ==
    \E query \in Queries, limit \in SearchLimits :
        Enter(r, "search", query, NoStr, limit, FALSE)

get_user_endpoint(r) ==
    \E username \in Usernames, refresh \in BOOLEAN :
        Enter(r, "user", username, NoStr, 0, refresh)

\* cached_result := await get_cache(cache_key), and the branch on it
CacheGet(r) ==
    /\ Suspended(r, "get")
    /\ Answers("get")
    /\ LET q == [req[r] EXCEPT !.saw = Holds(req[r].key)]
           v == get_cache(q.key)
       IN  IF Truthy(v)
           THEN /\ metrics' = CountRequest(metrics, TRUE)
                /\ req' = [req EXCEPT ![r] =
                        [q EXCEPT !.pc = "done", !.read = "hit",
                                  !.out = Ok(Deserialize(q.kind, v))]]
           ELSE /\ metrics' = CountRequest(metrics, FALSE)
                /\ req' = [req EXCEPT ![r] =
                        [q EXCEPT !.pc = FirstCall(q.kind),
                                  !.read = IF v = None THEN "miss" ELSE "empty"]]
    /\ warnings' = log_degraded(warnings)
    /\ UNCHANGED <<env, store, issued>>

\* the request ends in the except clauses with exception e
Raise(r, q, e) ==
    /\ store' = store
    /\ req' = [req EXCEPT ![r] =
            [q EXCEPT !.pc = "done", !.exc = e, !.out = HandlerOutcome(q.kind, e)]]
    /\ metrics' = IF CountsError(q.kind, e) THEN record_error(metrics) ELSE metrics

\* result = await get_album_url(artist, album); if not result: raise 404
Locate(r) ==
    /\ Suspended(r, "locate")
    /\ Answers("locate")
    /\ LET q == [req[r] EXCEPT !.locates = @ + 1]
           result == get_album_url(q.a1, q.a2)
       IN  \/ /\ "site" \notin down
              /\ result # NoEntry
              /\ req' = [req EXCEPT ![r] =
                      [q EXCEPT !.pc = "fetch", !.loc = result, !.located = "found"]]
              /\ UNCHANGED <<metrics, store>>
           \/ /\ "site" \notin down
              /\ result = NoEntry
              /\ Raise(r, [q EXCEPT !.located = "notfound"],
                       Exc("NotFound", "Album not found"))
           \/ \E e \in Failures(ScrapeFailures) :
                  Raise(r, [q EXCEPT !.located = "raised"], e)
    /\ UNCHANGED <<env, issued, warnings>>

\* what the scraper call of the endpoint returns at upstream revision v
ScrapedAt(q, v) ==
    CASE q.kind = "album" -> scrape_album(q.loc, v)
      [] q.kind = "similar" -> get_similar_albums(q.loc, q.limit, v)
      [] q.kind = "search" -> search_albums(q.a1, q.limit, v)
      [] q.kind = "user" -> get_user_profile(q.a1, v)

Scraped(q) == ScrapedAt(q, rev)

\* await scrape_album / get_similar_albums / search_albums / get_user_profile
Fetch(r) ==
    /\ Suspended(r, "fetch")
    /\ Answers("fetch")
    /\ LET q == [req[r] EXCEPT !.fetches = @ + 1]
       IN  \/ /\ "site" \notin down
              /\ req' = [req EXCEPT ![r] = [q EXCEPT !.pc = "set", !.data = Scraped(q)]]
              /\ UNCHANGED <<metrics, store>>
           \/ \E e \in Failures(FetchFailures(q.kind)) : Raise(r, q, e)
    /\ UNCHANGED <<env, issued, warnings>>

\* await set_cache(cache_key, data.dict(), TTL); return data
SetCache(r) ==
    /\ Suspended(r, "set")
    /\ Answers("set")
    /\ LET q == req[r]
       IN  /\ store' = set_cache(q.key, Serialize(q.data), KindTTL(q.kind))
           /\ req' = [req EXCEPT ![r] =
                   [q EXCEPT !.pc = "done", !.wrote = TRUE, !.out = Ok(q.data),
                             !.over = (Holds(q.key) = "live")]]
    /\ warnings' = log_degraded(warnings)
    /\ UNCHANGED <<env, issued, metrics>>

\* the response has been sent; the slot takes the next request
Respond(r) ==
    /\ req[r].pc = "done"
    /\ req' = [req EXCEPT ![r] = IdleReq]
    /\ UNCHANGED <<env, store, issued, metrics, warnings>>

\* ------------------------------------------------------------- environment
Tick ==
    /\ now < MaxTime
    /\ now' = now + 1
    /\ UNCHANGED <<configured, store, rev, req, issued, metrics, warnings, down>>

UpstreamChange ==
    /\ rev < MaxRev
    /\ rev' = rev + 1
    /\ UNCHANGED <<configured, store, now, req, issued, metrics, warnings, down>>

Next ==
    \/ \E r \in Reqs : get_album_endpoint(r)
    \/ \E r \in Reqs : get_similar_albums_endpoint(r)
    \/ \E r \in Reqs : search_albums_endpoint(r)
    \/ \E r \in Reqs : get_user_endpoint(r)
    \/ \E r \in Reqs : CacheGet(r)
    \/ \E r \in Reqs : Locate(r)
    \/ \E r \in Reqs : Fetch(r)
    \/ \E r \in Reqs : SetCache(r)
    \/ \E r \in Reqs : Respond(r)
    \/ Tick
    \/ UpstreamChange

Spec == Init /\ [][Next]_vars

\* =================================================================== claims
Done(r) == req[r].pc = "done"
Gets(r) == req[r].pc = "get" /\ req'[r].pc # "get"
Completes(r) == req[r].pc # "done" /\ req'[r].pc = "done"

\* the TTL each kind of entry is to be written with
ExpectedTTL(kind) ==
    CASE kind = "album" -> ALBUM_TTL
      [] kind = "similar" -> SIMILAR_TTL
      [] kind = "search" -> SEARCH_TTL
      [] kind = "user" -> USER_TTL

ExpectedEntry(q) ==
    [value |-> Serialize(q.out.body), ttl |-> ExpectedTTL(q.kind), at |-> now]

\* C1: a request without refresh whose Cache.get returned a value for its key
\* has made no Locator and no Fetcher call when it responds.
C1_CacheValueNoPipeline ==
    \A r \in Reqs :
        Done(r) /\ ~req[r].refresh /\ req[r].read \in {"hit", "empty"}
            => req[r].locates = 0 /\ req[r].fetches = 0

\* C2: a request with refresh set never reads the cache and always enters the
\* pipeline; when it completes with a record, the entry under its key is that
\* record, written at this instant with the TTL of its kind.
C2_Step(r) ==
    /\ req'[r].refresh =>
          /\ req'[r].read = "none"
          /\ req'[r].saw = "none"
          /\ req'[r].pc \in {"locate", "fetch", "set", "done"}
    /\ req[r].refresh /\ Completes(r) =>
          LET q == req'[r]
          IN  /\ q.locates + q.fetches >= 1
              /\ q.out.status = 200 /\ configured =>
                    /\ q.key \in DOMAIN store'
                    /\ store'[q.key] = ExpectedEntry(q)

C2_ForceRefresh == [][\A r \in Reqs : C2_Step(r)]_vars

\* C2 witness: a refresh has completed over an entry that was still live and
\* left its own record in its place.
C2_Witness ==
    \E r \in Reqs :
        /\ Done(r) /\ req[r].refresh /\ req[r].out.status = 200
        /\ req[r].over
        /\ req[r].key \in DOMAIN store
        /\ store[req[r].key] = ExpectedEntry(req[r])

\* C3: an album request without refresh that reads the cache while an entry
\* written less than ALBUM_TTL ago is there returns that entry's record with no
\* locate and no fetch and leaves the store alone; otherwise it enters the
\* pipeline, and when it completes it has located once, fetched once and stored
\* the record it returns, which reads back from the cache as the same record.
C3_Step(r) ==
    LET q == req[r]
        q2 == req'[r]
    IN  /\ q.kind = "album" /\ Gets(r) =>
              IF configured /\ q.key \in DOMAIN store
                    /\ now < store[q.key].at + ALBUM_TTL
              THEN /\ q2.pc = "done"
                   /\ q2.out = Ok(Deserialize("album", store[q.key].value))
                   /\ q2.locates = 0 /\ q2.fetches = 0
                   /\ store' = store
              ELSE q2.pc = "locate"
        /\ q2.kind = "album" => q2.locates <= 1 /\ q2.fetches <= 1
        /\ q.kind = "album" /\ Completes(r) /\ q2.out.status = 200 /\ q2.read # "hit" =>
              /\ q2.locates = 1 /\ q2.fetches = 1
              /\ configured =>
                    /\ q.key \in DOMAIN store'
                    /\ store'[q.key] = ExpectedEntry(q2)
                    /\ Ok(Deserialize("album", store'[q.key].value)) = q2.out

C4_KeyIgnoresCase ==
    \A r1, r2 \in Reqs :
        /\ req[r1].pc # "idle" /\ req[r2].pc # "idle"
        /\ req[r1].kind = req[r2].kind
        /\ Lower(req[r1].a1) = Lower(req[r2].a1)
        /\ Lower(req[r1].a2) = Lower(req[r2].a2)
        /\ req[r1].limit = req[r2].limit
        => req[r1].key = req[r2].key

\* what an album request without refresh returns in this state when upstream
\* answers
AlbumReturned(artist, album) ==
    LET v == get_cache(album_key(artist, album))
    IN  IF Truthy(v) THEN Deserialize("album", v)
        ELSE scrape_album(get_album_url(artist, album), rev)

\* C5: two (artist, album) queries that the Locator resolves to the same URL
\* are answered with the same record in every cache state.
C5_SameUrlSameRecord ==
    \A x1, x2 \in Artists, y1, y2 \in Albums :
        /\ get_album_url(x1, y1) # NoEntry
        /\ get_album_url(x1, y1).url = get_album_url(x2, y2).url
        => AlbumReturned(x1, y1) = AlbumReturned(x2, y2)

\* C6: a request that reads the cache while the store holds a live entry for
\* its key returns that entry's value, whatever it is, and runs no pipeline.
C6_Step(r) ==
    Gets(r) /\ Holds(req[r].key) = "live" =>
        /\ req'[r].pc = "done"
        /\ req'[r].out = Ok(Deserialize(req[r].kind, store[req[r].key].value))
        /\ req'[r].locates = 0 /\ req'[r].fetches = 0

C6_LiveEntryServed == [][\A r \in Reqs : C6_Step(r)]_vars

\* the outcome of a request that ran the pipeline is the pipeline's: the record
\* scraped, or the failure raised, a 503 only for an upstream or parse failure
PipelineOutcome(q) ==
    /\ q.locates + q.fetches >= 1
    /\ q.exc = NoExc =>
          /\ q.out = Ok(q.data)
          /\ q.fetches = 1
          /\ \E v \in 0..rev : q.data = ScrapedAt(q, v)
    /\ q.exc # NoExc =>
          /\ q.out.status \in {404, 503}
          /\ q.out.status = 503 <=> q.exc.type \in {"UpstreamUnavailable", "ParseError"}
          /\ q.out.status = 404 <=> q.exc.type = "NotFound"

Step(r) == CacheGet(r) \/ Locate(r) \/ Fetch(r) \/ SetCache(r)

\* C8: a request past its cache miss is never held back by another request,
\* and completes only after its own locate (where the endpoint locates), its
\* own fetch and its own cache write.
C8_NoSingleFlight ==
    \A r \in Reqs :
        /\ req[r].pc \in {"get", "locate", "fetch", "set"} => ENABLED Step(r)
        /\ Done(r) /\ req[r].out.status = 200 /\ req[r].read # "hit" =>
              /\ req[r].locates = (IF UsesLocator(req[r].kind) THEN 1 ELSE 0)
              /\ req[r].fetches = 1
              /\ req[r].wrote

\* C8 witness: two requests for one key both missed and both fetched before
\* either wrote.
C8_Witness ==
    \E r1, r2 \in Reqs :
        /\ r1 # r2
        /\ req[r1].key = req[r2].key
        /\ req[r1].read = "miss" /\ req[r2].read = "miss"
        /\ req[r1].pc = "set" /\ req[r2].pc = "set"
        /\ req[r1].fetches = 1 /\ req[r2].fetches = 1

NoAlbumCandidate(artist) == SelectSeq(UpstreamSearch(artist), IsAlbum) = <<>>

\* C9: when locate returns for an artist with no album-kind candidate, the
\* request has ended 404 "Album not found" after one locate, no fetch and no
\* cache write.
C9_NotFound ==
    \A r \in Reqs :
        /\ UsesLocator(req[r].kind)
        /\ req[r].located \in {"found", "notfound"}
        /\ NoAlbumCandidate(req[r].a1)
        => /\ Done(r)
           /\ req[r].out = HTTPError(404, "Album not found")
           /\ req[r].locates = 1 /\ req[r].fetches = 0
           /\ ~req[r].wrote

\* C9 witness: a similar-albums request for an artist without albums has ended
\* 404 at the locate.
C9_Witness ==
    \E r \in Reqs :
        /\ req[r].kind = "similar" /\ req[r].located = "notfound"
        /\ Done(r) /\ req[r].out.status = 404

StatusOfType(t) ==
    CASE t = "NotFound" -> 404
      [] t = "UpstreamUnavailable" -> 503
      [] t = "ParseError" -> 503

\* C10: the status of a failed request is a function of the failure's type:
\* 404 for NotFound, 503 for UpstreamUnavailable, and for ParseError a status
\* other than 404.
C10_StatusByType ==
    \A r \in Reqs :
        Done(r) /\ req[r].exc # NoExc =>
            /\ req[r].out.status = StatusOfType(req[r].exc.type)
            /\ req[r].exc.type = "ParseError" => req[r].out.status # 404

\* C10 witness: a parse failure whose message reads "not found" has ended 503.
C10_Witness ==
    \E r \in Reqs :
        /\ Done(r) /\ req[r].exc = Exc("ParseError", "not found")
        /\ req[r].out.status = 503

\* C11: a search answered 200 for limit L carries at most L results, the
\* leading results of the upstream listing in its order, each a SearchResult
\* with a non-empty URL, whether built or read from the cache (so never a
\* longer list cached under a larger limit).
C11_SearchLimit ==
    \A r \in Reqs :
        Done(r) /\ req[r].kind = "search" /\ req[r].out.status = 200 =>
            LET items == req[r].out.body.items
                up == UpstreamSearch(req[r].a1)
            IN  /\ Len(items) <= req[r].limit
                /\ Len(items) <= Len(up)
                /\ \A i \in DOMAIN items :
                      /\ items[i].cls = "SearchResult"
                      /\ items[i].f.url = up[i].url
                      /\ items[i].f.url # ""

\* C11 witness: a search with limit 1 for a query with several upstream
\* results has been answered from the cache with one result.
C11_Witness ==
    \E r \in Reqs :
        /\ Done(r) /\ req[r].kind = "search" /\ req[r].read = "hit"
        /\ req[r].limit = 1
        /\ Len(req[r].out.body.items) = 1
        /\ Len(UpstreamSearch(req[r].a1)) > 1

\* the resource kind a key was built for, read off its prefix
KeyKind(k) ==
    CASE k[1] = "a" -> "album"
      [] k[1] = "u" -> "user"
      [] k[1] = "s" /\ k[2] = "i" -> "similar"
      [] k[1] = "s" /\ k[2] = "e" -> "search"

\* C12: every entry of the store carries the TTL constant of the kind of its
\* key.
C12_TTLByKind ==
    \A k \in DOMAIN store : store[k].ttl = ExpectedTTL(KeyKind(k))

\* C12 witness: the store holds entries of two kinds, with different TTLs.
C12_Witness ==
    \E k1, k2 \in DOMAIN store :
        /\ KeyKind(k1) = "album" /\ KeyKind(k2) = "similar"
        /\ store[k1].ttl # store[k2].ttl

Outage ==
    /\ \E d \in SUBSET {"store", "site"} : d # down /\ down' = d
    /\ UNCHANGED <<configured, store, now, rev, req, issued, metrics, warnings>>

\* one request of each endpoint, for an artist with and without albums
LiveEnter(r) ==
    \/ \E artist \in {<<"r">>, <<"x">>}, refresh \in BOOLEAN :
          Enter(r, "album", artist, <<"o">>, 0, refresh)
    \/ \E artist \in {<<"r">>, <<"x">>}, refresh \in BOOLEAN :
          Enter(r, "similar", artist, <<"o">>, 1, refresh)
    \/ Enter(r, "search", <<"r">>, NoStr, 1, FALSE)
    \/ \E refresh \in BOOLEAN : Enter(r, "user", <<"b">>, NoStr, 0, refresh)

LiveNext ==
    \/ \E r \in Reqs : LiveEnter(r)
    \/ \E r \in Reqs : CacheGet(r)
    \/ \E r \in Reqs : Locate(r)
    \/ \E r \in Reqs : Fetch(r)
    \/ \E r \in Reqs : SetCache(r)
    \/ \E r \in Reqs : Respond(r)
    \/ Outage

\* the event loop resumes every coroutine whose awaited call has come back
LiveSpec ==
    Init /\ [][LiveNext]_vars /\ \A r \in Reqs : WF_vars(Step(r))

Abandon(r) ==
    /\ req[r].pc \in {"get", "locate", "fetch", "set"}
    /\ req' = [req EXCEPT ![r] = IdleReq]
    /\ \/ store' = store
       \/ /\ req[r].pc = "set"
          /\ store' = set_cache(req[r].key, Serialize(req[r].data), KindTTL(req[r].kind))
    /\ UNCHANGED <<env, issued, metrics, warnings>>

AbandonNext == Next \/ \E r \in Reqs : Abandon(r)

AbandonSpec == Init /\ [][AbandonNext]_vars

Kinds == {"album", "similar", "search", "user"}

\* the arguments an endpoint is called with
ArgsOf(kind) ==
    CASE kind = "album" -> Artists \X Albums \X {0}
      [] kind = "similar" -> Artists \X Albums \X SimilarLimits
      [] kind = "search" -> Queries \X {NoStr} \X SearchLimits
      [] kind = "user" -> Usernames \X {NoStr} \X {0}

\* the JSON form of a complete result
JsonOf(data) ==
    [shape |-> IF data.many THEN "list" ELSE "dict",
     body |-> [i \in DOMAIN data.items |-> data.items[i].f]]

\* value is the whole result of one pipeline run for key k at some revision
OneRun(k, value) ==
    \E kind \in Kinds :
        \E a \in ArgsOf(kind), v \in 0..rev :
            LET q == [kind |-> kind, a1 |-> a[1], limit |-> a[3],
                      loc |-> get_album_url(a[1], a[2])]
            IN  /\ cache_key(kind, a[1], a[2], a[3]) = k
                /\ UsesLocator(kind) => q.loc # NoEntry
                /\ value = JsonOf(ScrapedAt(q, v))

\* the store after one whole-entry write under key k
Replaced(k, value, ttl) ==
    [j \in DOMAIN store \cup {k} |->
        IF j = k THEN [value |-> value, ttl |-> ttl, at |-> now] ELSE store[j]]

\* C15: every entry of the store is the whole result of one pipeline run for
\* its key, and the store changes only by one request's cache write putting
\* the whole result it fetched under its own key, all other entries untouched.
C15_WholeEntries ==
    /\ [](\A k \in DOMAIN store : OneRun(k, store[k].value))
    /\ [][store' # store =>
            \E r \in Reqs :
                /\ req[r].pc = "set"
                /\ store' = Replaced(req[r].key, JsonOf(req[r].data),
                                     ExpectedTTL(req[r].kind))]_vars

\* C15 witness: a cache write has replaced a live entry, and the entry is a
\* list of several results.
C15_Witness ==
    \E r \in Reqs :
        /\ Done(r) /\ req[r].over
        /\ req[r].key \in DOMAIN store
        /\ Len(store[req[r].key].value.body) >= 2
        /\ OneRun(req[r].key, store[req[r].key].value)

\* ----------------------------------------------- refresh after refresh
\* one similar-albums listing, one user and one unknown album, asked for
\* up to MaxRefreshReqs times with and without refresh
RefreshEnter(r) ==
    \/ \E refresh \in BOOLEAN :
          EnterUpTo(MaxRefreshReqs, r, "similar", <<"r">>, <<"o">>, 1, refresh)
    \/ \E refresh \in BOOLEAN :
          EnterUpTo(MaxRefreshReqs, r, "user", <<"b">>, NoStr, 0, refresh)
    \/ \E refresh \in BOOLEAN :
          EnterUpTo(MaxRefreshReqs, r, "album", <<"x">>, <<"o">>, 0, refresh)

RefreshNext ==
    \/ \E r \in Reqs : RefreshEnter(r)
    \/ \E r \in Reqs : CacheGet(r)
    \/ \E r \in Reqs : Locate(r)
    \/ \E r \in Reqs : Fetch(r)
    \/ \E r \in Reqs : SetCache(r)
    \/ \E r \in Reqs : Respond(r)
    \/ Tick

RefreshSpec == Init /\ [][RefreshNext]_vars

Failed(q) == q.out.status \in {404, 503}

\* a request that ends in a 404 or a 503 has made no cache write, and the
\* step that ends it leaves the store as it is
C16_NoSetOnFailure ==
    /\ [](\A r \in Reqs : Done(r) /\ Failed(req[r]) => ~req[r].wrote)
    /\ [][\A r \in Reqs : Completes(r) /\ Failed(req'[r]) => store' = store]_vars

\* a forced refresh of r's key has failed
FailedRefreshOf(r) ==
    \E r2 \in Reqs \ {r} :
        /\ Done(r2) /\ req[r2].refresh /\ Failed(req[r2])
        /\ req[r2].key = req[r].key

\* C16: a request that ends in a 404 or a 503 makes no cache write and leaves
\* the store unchanged, with or without refresh; and a request without refresh
\* that reads the cache after a failed forced refresh of its key, while the
\* entry is within its TTL, is answered with the entry and runs no pipeline.
C16_FailureKeepsEntry ==
    /\ C16_NoSetOnFailure
    /\ [][\A r \in Reqs :
            Gets(r) /\ Holds(req[r].key) = "live" /\ FailedRefreshOf(r) =>
                /\ req'[r].pc = "done"
                /\ req'[r].out = Ok(Deserialize(req[r].kind, store[req[r].key].value))
                /\ req'[r].locates = 0 /\ req'[r].fetches = 0]_vars

\* ------------------------------------------------- arguments with a colon
\* (artist, album) pairs whose texts hold the separator of the key
ColonPairs == {<< <<"r", ":", "o">>, <<"k">> >>, << <<"r">>, <<"o", ":", "k">> >>}
ColonQueries == {<<"r">>, <<"r", ":", "1">>}
ColonUsernames == {<<"b">>, <<"b", ":", "b">>}

KeyEnter(r) ==
    \/ \E a \in ColonPairs : Enter(r, "album", a[1], a[2], 0, FALSE)
    \/ \E a \in ColonPairs : Enter(r, "similar", a[1], a[2], 1, FALSE)
    \/ \E query \in ColonQueries, limit \in SearchLimits :
          Enter(r, "search", query, NoStr, limit, FALSE)
    \/ \E username \in ColonUsernames : Enter(r, "user", username, NoStr, 0, FALSE)

KeyNext ==
    \/ \E r \in Reqs : KeyEnter(r)
    \/ \E r \in Reqs : CacheGet(r)
    \/ \E r \in Reqs : Locate(r)
    \/ \E r \in Reqs : Fetch(r)
    \/ \E r \in Reqs : SetCache(r)
    \/ \E r \in Reqs : Respond(r)
    \/ UpstreamChange

KeySpec == Init /\ [][KeyNext]_vars

\* the resource a request names
Resource(q) == <<q.kind, q.a1, q.a2, q.limit>>

\* body is what the pipeline gives for the resource q names, at some revision
RecordOf(q, body) ==
    LET p == [q EXCEPT !.loc = get_album_url(q.a1, q.a2)]
    IN  \E v \in 0..rev : body = ScrapedAt(p, v)

\* C17: two requests with the same cache key name the same resource (kind and
\* identifying arguments), also when the arguments hold a ':'; and a request
\* answered from the cache is answered with a record of the resource it names.
C17_KeyInjective ==
    /\ \A r1, r2 \in Reqs :
          req[r1].pc # "idle" /\ req[r2].pc # "idle" /\ req[r1].key = req[r2].key
              => Resource(req[r1]) = Resource(req[r2])
    /\ \A r \in Reqs :
          Done(r) /\ req[r].read = "hit" => RecordOf(req[r], req[r].out.body)

\* the consequence alone: a request answered from the cache is answered with
\* a record of the resource it names
C17_OwnRecord ==
    \A r \in Reqs :
        Done(r) /\ req[r].read = "hit" => RecordOf(req[r], req[r].out.body)

\* ------------------------------------------------------------------ metrics
\* the step in which request r calls metrics.record_request: on entry with
\* refresh, else when its cache read comes back
Counted(r) ==
    \/ req[r].pc = "idle" /\ req'[r].pc \in {"locate", "fetch"}
    \/ Gets(r)

\* the response of q comes from the cache
ServedFromCache(q) ==
    q.pc = "done" /\ q.out.status = 200 /\ q.locates = 0 /\ q.fetches = 0

\* C18: every request is counted exactly once, before any pipeline call, as a
\* hit exactly when it is served from the cache: hits + misses is the number
\* of requests accepted that are past their cache read, the counters move only
\* in the step where a request is counted, by one, and a request that ended
\* in 404 or 503 has been counted as a miss.
C18_CountedOnce ==
    /\ [](metrics.hits + metrics.misses
            = issued - Cardinality({r \in Reqs : req[r].pc = "get"}))
    /\ [](metrics.misses >= Cardinality({r \in Reqs : Done(r) /\ Failed(req[r])}))
    /\ [][LET dh == metrics'.hits - metrics.hits
              dm == metrics'.misses - metrics.misses
          IN  /\ dh >= 0 /\ dm >= 0
              /\ dh + dm = Cardinality({r \in Reqs : Counted(r)})
              /\ \A r \in Reqs : Counted(r) =>
                    /\ req[r].locates = 0 /\ req[r].fetches = 0
                    /\ req'[r].locates = 0 /\ req'[r].fetches = 0
                    /\ dh = 1 <=> ServedFromCache(req'[r])]_vars

\* C18 witness: two requests handled, one ended in 404 after its locate, the
\* other answered 200 by the pipeline; both counted as misses.
C18_Witness ==
    \E r1, r2 \in Reqs :
        /\ Done(r1) /\ req[r1].out.status = 404 /\ req[r1].locates = 1
        /\ Done(r2) /\ req[r2].out.status = 200 /\ req[r2].wrote
        /\ issued = 2 /\ metrics.hits = 0 /\ metrics.misses = 2

\* C18 witness of a hit: a request served from the cache, counted as the hit
C18_HitCounted ==
    \E r \in Reqs :
        /\ Done(r) /\ ServedFromCache(req[r]) /\ req[r].read = "hit"
        /\ issued = 2 /\ metrics.hits = 1 /\ metrics.misses = 1

====
